---- MODULE Spec2Model ----
(***************************************************************************)
(* The posts router of the REST backend (src/api/posts.js): every route    *)
(* handler is a sequence of steps separated by the awaits of the code, so  *)
(* that the steps of requests in flight interleave at the document store.  *)
(***************************************************************************)
EXTENDS Integers, Sequences, FiniteSets, TLC

\* ---------------------------------------------------------------- bounds
MaxReq == 3        \* requests accepted in one behaviour
MaxSlots == 2      \* requests in flight at the same time
MaxPosts == 2      \* post ids ever created
MaxComments == 2   \* comment ids ever created

\* ------------------------------------------------------- static documents
\* The User collection: no route of the router writes it.
Users == {"u1", "u2", "root"}

Role(u) == IF u = "root" THEN "root" ELSE "user"

\* The Follower collection (following lists): no route of the router writes it.
Following(u) == IF u = "u1" THEN {"u2"} ELSE IF u = "u2" THEN {"u1", "root"} ELSE {}

PostIds == 1..MaxPosts
Slots == 1..MaxSlots

VARIABLES
  posts,    \* the Post collection: post id -> document
  nextId,   \* the next post id, also the creation clock (createdAt)
  nextCid,  \* the next comment id (uuid)
  reqs,     \* the requests in flight: slot -> request
  nreq,     \* requests accepted so far
  calls,    \* notification helper calls made: <<helper, to, from, post>> -> count
  toggled,  \* per post and user: an odd number of like toggles were answered 200
  raced,    \* some like save wrote an array read before another write to it
  walk,     \* a client following next from page 1
  last      \* the request answered last, as answered

vars == <<posts, nextId, nextCid, reqs, nreq, calls, toggled, raced, walk, last>>

\* ------------------------------------------------------------ documents
NoPost == [exists |-> FALSE, user |-> "none", likes |-> <<>>, saves |-> <<>>,
           comments |-> <<>>, views |-> 0, createdAt |-> 0]

NewPost(u, t) == [exists |-> TRUE, user |-> u, likes |-> <<>>, saves |-> <<>>,
                  comments |-> <<>>, views |-> 0, createdAt |-> t]

\* ------------------------------------------------------- array helpers
\* arr.filter((e) => e.user.toString() === req.userId).length > 0
IsMember(arr, u) == Len(SelectSeq(arr, LAMBDA e : e = u)) > 0

\* arr.findIndex(...): the first index holding u (0 when there is none)
FindIndex(arr, u) ==
  IF \E i \in 1..Len(arr) : arr[i] = u
  THEN CHOOSE i \in 1..Len(arr) : arr[i] = u /\ \A j \in 1..(i - 1) : arr[j] # u
  ELSE 0

\* arr.splice(index, 1); an index of -1 (here 0) removes the last element
Splice(arr, i) ==
  LET k == IF i = 0 THEN Len(arr) ELSE i
  IN  IF Len(arr) = 0 THEN arr
      ELSE SubSeq(arr, 1, k - 1) \o SubSeq(arr, k + 1, Len(arr))

\* arr.unshift(x)
Unshift(arr, x) == <<x>> \o arr

\* Faulty variant: the toggle without the isLiked test.
ToggleAlwaysInsert(arr, u) == Unshift(arr, u)

\* Faulty variant: the toggle whose else branch forgets the unshift.
ToggleNeverInsert(arr, u) == IF IsMember(arr, u) THEN Splice(arr, FindIndex(arr, u)) ELSE arr

\* Faulty variant: push in place of unshift.
ToggleAtTail(arr, u) == IF IsMember(arr, u) THEN Splice(arr, FindIndex(arr, u)) ELSE arr \o <<u>>

\* The like / save toggle: splice the user's entry out when present, else unshift.
Toggle(arr, u) ==
  IF IsMember(arr, u) THEN Splice(arr, FindIndex(arr, u)) ELSE Unshift(arr, u)

\* ------------------------------------------------------------- the store
\* Post.findById(id): the document, or null (NoPost)
FindById(store, p) == store[p]

\* doc.save(): writes the modified path of the document; a document that is
\* no longer in the collection is not written back
SavePath(store, p, path, val) == [store EXCEPT ![p] = [@ EXCEPT ![path] = val]]

\* doc.remove()
Remove(store, p) == [store EXCEPT ![p] = NoPost]

\* ------------------------------------------------------------- requests
Idle == [route |-> "idle", user |-> "none", pid |-> 0, cid |-> 0, pc |-> "idle",
         post |-> NoPost, status |-> 0, nresp |-> 0, failed |-> FALSE,
         missing |-> FALSE, out |-> <<>>, page |-> 0, limit |-> 0, total |-> 0,
         next |-> 0, w |-> FALSE, flag |-> FALSE, hfail |-> FALSE, author |-> "none",
         old |-> <<>>]

NewReq(route, u, p) == [Idle EXCEPT !.route = route, !.user = u, !.pid = p]

\* res.status(st).json(out), the handler's last statement on every path
Respond(r, st, out) ==
  [r EXCEPT !.pc = "done", !.status = st, !.nresp = @ + 1, !.out = out, !.post = NoPost]

\* catch (err) { console.error(err); res.status(500).json({ msg: 'Server error' }) }
ServerError(r) == [Respond(r, 500, <<>>) EXCEPT !.failed = TRUE]

\* An exception thrown outside the handler's try rejects the promise the async
\* handler returned. The framework does not see the rejection and the request is
\* never answered (Express 4), or it answers 500 itself (Express 5).
Unhandled(r, answered) ==
  IF answered
  THEN ServerError(r)
  ELSE [r EXCEPT !.pc = "done", !.failed = TRUE, !.post = NoPost]

\* if (!post) return res.status(404).json(...)
NotFound(r) == [Respond(r, 404, <<>>) EXCEPT !.missing = TRUE]

\* A request is accepted into the lowest free slot.
Accept(s) ==
  /\ reqs[s].pc = "idle"
  /\ \A t \in 1..(s - 1) : reqs[t].pc # "idle"
  /\ nreq < MaxReq
  /\ nreq' = nreq + 1

\* A handler step leaves request s as r: still in flight, or answered, which
\* frees the slot and leaves the answered request in last.
Step(s, r) ==
  IF r.pc = "done"
  THEN /\ reqs' = [reqs EXCEPT ![s] = Idle]
       /\ last' = r
  ELSE /\ reqs' = [reqs EXCEPT ![s] = r]
       /\ UNCHANGED last

\* ----------------------------------------------------- notification helpers
Helpers == {"newLike", "removeLike", "newComment", "removeComment"}

CallKeys == Helpers \X Users \X Users \X PostIds

\* The helper is called with (userToNotify, user, postId).
Called(c, h, to, from, p) == [c EXCEPT ![<<h, to, from, p>>] = @ + 1]

\* Faulty variant: a helper that lets its own failure reach the caller.
HelperRejectsOnFailure(helperOk) == ~helperOk

\* Whether the awaited helper call rejects when its own work fails.
HelperRejects(helperOk) == FALSE

\* ------------------------------------------------- POST /api/posts
\* req.files after upload.array('images', 5): absent when the middleware did not
\* parse the body (it is not multipart/form-data), else the n uploaded files.
Uploads == {[has |-> FALSE, n |-> 0], [has |-> TRUE, n |-> 0], [has |-> TRUE, n |-> 1]}

OneFile == [has |-> TRUE, n |-> 1]

\* One step: the handler's only await is the save of the new document. The test of
\* req.files.length comes before the try.
Create(s, u, up, parses) ==
  /\ Accept(s)
  /\ nextId <= MaxPosts
  /\ \E ok, answered \in BOOLEAN :
       LET r == NewReq("create", u, nextId)
       IN  IF ~up.has
           THEN /\ Step(s, Unhandled(r, answered))
                /\ UNCHANGED <<posts, nextId>>
           ELSE IF up.n < 1
           THEN /\ Step(s, Respond(r, 400, <<>>))
                /\ UNCHANGED <<posts, nextId>>
           ELSE IF ~parses \/ ~ok
           THEN /\ Step(s, ServerError(r))
                /\ UNCHANGED <<posts, nextId>>
           ELSE /\ posts' = [posts EXCEPT ![nextId] = NewPost(u, nextId)]
                /\ nextId' = nextId + 1
                /\ Step(s, Respond(r, 201, <<nextId>>))
  /\ UNCHANGED <<nextCid, calls, toggled, raced, walk>>

\* ------------------------------------------------- PUT /api/posts/like/:postId
LikeFind(s, u, p) ==
  /\ Accept(s)
  /\ \E ok \in BOOLEAN :
       LET r == NewReq("like", u, p)
           post == FindById(posts, p)
       IN  Step(s,
                      IF ~ok THEN ServerError(r)
                      ELSE IF ~post.exists THEN NotFound(r)
                      ELSE [r EXCEPT !.pc = "like_save", !.post = post])
  /\ UNCHANGED <<posts, nextId, nextCid, calls, toggled, raced, walk>>

LikeSave(s) ==
  /\ reqs[s].pc = "like_save"
  /\ \E ok \in BOOLEAN :
       LET r == reqs[s]
           isLiked == IsMember(r.post.likes, r.user)
           likes == Toggle(r.post.likes, r.user)
       IN  IF ok /\ posts[r.pid].exists
           THEN /\ posts' = SavePath(posts, r.pid, "likes", likes)
                /\ Step(s, [r EXCEPT !.pc = "like_notify", !.post.likes = likes,
                                      !.flag = isLiked, !.old = r.post.likes])
                /\ raced' = (raced \/ r.post.likes # posts[r.pid].likes)
           ELSE /\ Step(s, ServerError(r))
                /\ UNCHANGED <<posts, raced>>
  /\ UNCHANGED <<nextId, nextCid, nreq, calls, toggled, walk>>

LikeNotify(s) ==
  /\ reqs[s].pc = "like_notify"
  /\ \E helperOk \in BOOLEAN :
       LET r == reqs[s]
           notify == r.post.user # r.user
           helper == IF r.flag THEN "removeLike" ELSE "newLike"
           rejected == notify /\ HelperRejects(helperOk)
       IN  /\ calls' = IF notify THEN Called(calls, helper, r.post.user, r.user, r.pid)
                       ELSE calls
           /\ Step(s, [(IF rejected THEN ServerError(r) ELSE Respond(r, 200, r.post.likes))
                         EXCEPT !.hfail = notify /\ ~helperOk])
           /\ toggled' = IF rejected THEN toggled
                         ELSE [toggled EXCEPT ![r.pid][r.user] = ~@]
  /\ UNCHANGED <<posts, nextId, nextCid, nreq, raced, walk>>

\* ------------------------------------------------- PUT /api/posts/save/:postId
SaveFind(s, u, p) ==
  /\ Accept(s)
  /\ \E ok \in BOOLEAN :
       LET r == NewReq("save", u, p)
           post == FindById(posts, p)
       IN  Step(s,
                      IF ~ok THEN ServerError(r)
                      ELSE IF ~post.exists THEN NotFound(r)
                      ELSE [r EXCEPT !.pc = "save_save", !.post = post])
  /\ UNCHANGED <<posts, nextId, nextCid, calls, toggled, raced, walk>>

SaveSave(s) ==
  /\ reqs[s].pc = "save_save"
  /\ \E ok \in BOOLEAN :
       LET r == reqs[s]
           saves == Toggle(r.post.saves, r.user)
       IN  IF ok /\ posts[r.pid].exists
           THEN /\ posts' = SavePath(posts, r.pid, "saves", saves)
                /\ Step(s, [Respond(r, 200, saves) EXCEPT !.old = r.post.saves])
           ELSE /\ Step(s, ServerError(r))
                /\ UNCHANGED posts
  /\ UNCHANGED <<nextId, nextCid, nreq, calls, toggled, raced, walk>>

\* ------------------------------------------------- DELETE /api/posts/:postId
DeleteFind(s, u, p) ==
  /\ Accept(s)
  /\ \E ok \in BOOLEAN :
       LET r == NewReq("delete", u, p)
           post == FindById(posts, p)
       IN  Step(s,
                      IF ~ok THEN ServerError(r)
                      ELSE IF ~post.exists THEN NotFound(r)
                      ELSE [r EXCEPT !.pc = "delete_user", !.post = post])
  /\ UNCHANGED <<posts, nextId, nextCid, calls, toggled, raced, walk>>

\* Faulty variant: the delete without the authorization test.
MayDeleteAnyone(post, u) == TRUE

\* post.user.toString() === req.userId || user.role === 'root'
MayDelete(post, u) == post.user = u \/ Role(u) = "root"

\* User.findById(req.userId), then the ownership check
DeleteUser(s) ==
  /\ reqs[s].pc = "delete_user"
  /\ \E ok \in BOOLEAN :
       LET r == reqs[s]
       IN  Step(s,
                      IF ~ok THEN ServerError(r)
                      ELSE IF MayDelete(r.post, r.user)
                      THEN [r EXCEPT !.pc = "delete_remove"]
                      ELSE Respond(r, 401, <<>>))
  /\ UNCHANGED <<posts, nextId, nextCid, nreq, calls, toggled, raced, walk>>

DeleteRemove(s) ==
  /\ reqs[s].pc = "delete_remove"
  /\ \E ok \in BOOLEAN :
       LET r == reqs[s]
       IN  IF ok
           THEN /\ posts' = Remove(posts, r.pid)
                /\ Step(s, Respond(r, 200, <<>>))
           ELSE /\ Step(s, ServerError(r))
                /\ UNCHANGED posts
  /\ UNCHANGED <<nextId, nextCid, nreq, calls, toggled, raced, walk>>

\* ------------------------------------------------- GET /api/posts/:postId
GetFind(s, p) ==
  /\ Accept(s)
  /\ \E ok \in BOOLEAN :
       LET r == NewReq("get", "none", p)
           post == FindById(posts, p)
       IN  Step(s,
                      IF ~ok THEN ServerError(r)
                      ELSE IF ~post.exists THEN NotFound(r)
                      ELSE [r EXCEPT !.pc = "get_save", !.post = post])
  /\ UNCHANGED <<posts, nextId, nextCid, calls, toggled, raced, walk>>

\* post.views++; post = await post.save()
GetSave(s) ==
  /\ reqs[s].pc = "get_save"
  /\ \E ok \in BOOLEAN :
       LET r == reqs[s]
       IN  IF ok /\ posts[r.pid].exists
           THEN /\ posts' = SavePath(posts, r.pid, "views", r.post.views + 1)
                /\ Step(s, Respond(r, 200, <<r.pid>>))
           ELSE /\ Step(s, ServerError(r))
                /\ UNCHANGED posts
  /\ UNCHANGED <<nextId, nextCid, nreq, calls, toggled, raced, walk>>

\* ------------------------------------------------- GET /api/posts/like/:postId
LikesGet(s, p) ==
  /\ Accept(s)
  /\ \E ok \in BOOLEAN :
       LET r == NewReq("likes", "none", p)
           post == FindById(posts, p)
       IN  Step(s,
                      IF ~ok THEN ServerError(r)
                      ELSE IF ~post.exists THEN NotFound(r)
                      ELSE Respond(r, 200, post.likes))
  /\ UNCHANGED <<posts, nextId, nextCid, calls, toggled, raced, walk>>

\* ------------------------------------------------- GET /api/posts/saves
RECURSIVE Ascending(_)
Ascending(S) ==
  IF S = {} THEN <<>>
  ELSE LET m == CHOOSE x \in S : \A y \in S : x <= y
       IN  <<m>> \o Ascending(S \ {m})

SavesList(s, u) ==
  /\ Accept(s)
  /\ \E ok \in BOOLEAN :
       LET r == NewReq("saves", u, 0)
           saved == {p \in PostIds : posts[p].exists /\ IsMember(posts[p].saves, u)}
       IN  Step(s,
                      IF ~ok THEN ServerError(r) ELSE Respond(r, 200, Ascending(saved)))
  /\ UNCHANGED <<posts, nextId, nextCid, calls, toggled, raced, walk>>

\* ------------------------------------------------- POST /api/posts/comment/:postId
\* req.body: text absent, the empty string, a non-empty string
Bodies == {[has |-> FALSE, text |-> <<>>], [has |-> TRUE, text |-> <<>>],
           [has |-> TRUE, text |-> <<"a">>]}

\* post.comments.find / findIndex by comment._id === req.params.commentId
CommentIndex(arr, c) ==
  IF \E i \in 1..Len(arr) : arr[i].id = c
  THEN CHOOSE i \in 1..Len(arr) : arr[i].id = c /\ \A j \in 1..(i - 1) : arr[j].id # c
  ELSE 0

CommentFind(s, u, p, body) ==
  /\ Accept(s)
  /\ nextCid <= MaxComments
  /\ \E ok \in BOOLEAN :
       LET r == NewReq("comment", u, p)
           post == FindById(posts, p)
           text == body.text
       IN  IF ~body.has
           THEN /\ Step(s, ServerError(r))
                /\ UNCHANGED nextCid
           ELSE IF Len(text) < 1
           THEN /\ Step(s, [Respond(r, 400, <<>>) EXCEPT
                                                  !.missing = ~post.exists])
                /\ UNCHANGED nextCid
           ELSE IF ~ok
           THEN /\ Step(s, ServerError(r))
                /\ UNCHANGED nextCid
           ELSE IF ~post.exists
           THEN /\ Step(s, NotFound(r))
                /\ UNCHANGED nextCid
           ELSE /\ Step(s, [r EXCEPT !.pc = "comment_save",
                                                  !.post = post, !.cid = nextCid])
                /\ nextCid' = nextCid + 1
  /\ UNCHANGED <<posts, nextId, calls, toggled, raced, walk>>

CommentSave(s) ==
  /\ reqs[s].pc = "comment_save"
  /\ \E ok \in BOOLEAN :
       LET r == reqs[s]
           comment == [id |-> r.cid, user |-> r.user]
           comments == Unshift(r.post.comments, comment)
       IN  IF ok /\ posts[r.pid].exists
           THEN /\ posts' = SavePath(posts, r.pid, "comments", comments)
                /\ Step(s, [r EXCEPT !.pc = "comment_notify",
                                                  !.post.comments = comments])
           ELSE /\ Step(s, ServerError(r))
                /\ UNCHANGED posts
  /\ UNCHANGED <<nextId, nextCid, nreq, calls, toggled, raced, walk>>

\* Post.populate, the helper, the response
CommentNotify(s) ==
  /\ reqs[s].pc = "comment_notify"
  /\ \E populateOk, helperOk \in BOOLEAN :
       LET r == reqs[s]
           notify == r.post.user # r.user
       IN  IF ~populateOk
           THEN /\ Step(s, ServerError(r))
                /\ UNCHANGED calls
           ELSE /\ calls' = IF notify
                            THEN Called(calls, "newComment", r.post.user, r.user, r.pid)
                            ELSE calls
                /\ Step(s, [(IF notify /\ HelperRejects(helperOk) THEN ServerError(r)
                              ELSE Respond(r, 201, r.post.comments))
                               EXCEPT !.hfail = notify /\ ~helperOk])
  /\ UNCHANGED <<posts, nextId, nextCid, nreq, toggled, raced, walk>>

\* ------------------------------- DELETE /api/posts/comment/:postId/:commentId
CommentIds == 1..MaxComments

CommentDeleteFind(s, u, p, c) ==
  /\ Accept(s)
  /\ \E ok \in BOOLEAN :
       LET r == [NewReq("uncomment", u, p) EXCEPT !.cid = c]
           post == FindById(posts, p)
           i == CommentIndex(post.comments, c)
       IN  Step(s,
                      IF ~ok THEN ServerError(r)
                      ELSE IF ~post.exists THEN NotFound(r)
                      ELSE IF i = 0 THEN [Respond(r, 404, <<>>) EXCEPT !.flag = TRUE]
                      ELSE [r EXCEPT !.pc = "uncomment_user", !.post = post,
                                     !.author = post.comments[i].user])
  /\ UNCHANGED <<posts, nextId, nextCid, calls, toggled, raced, walk>>

\* Faulty variant: the post's owner may delete comments too.
MayDeleteCommentOrOwner(author, owner, u) == author = u \/ owner = u \/ Role(u) = "root"

\* comment.user.toString() === req.userId || user.role === 'root'
MayDeleteComment(author, owner, u) == author = u \/ Role(u) = "root"

CommentDeleteUser(s) ==
  /\ reqs[s].pc = "uncomment_user"
  /\ \E ok \in BOOLEAN :
       LET r == reqs[s]
       IN  Step(s,
                      IF ~ok THEN ServerError(r)
                      ELSE IF MayDeleteComment(r.author, r.post.user, r.user)
                      THEN [r EXCEPT !.pc = "uncomment_save"]
                      ELSE Respond(r, 401, <<>>))
  /\ UNCHANGED <<posts, nextId, nextCid, nreq, calls, toggled, raced, walk>>

CommentDeleteSave(s) ==
  /\ reqs[s].pc = "uncomment_save"
  /\ \E ok \in BOOLEAN :
       LET r == reqs[s]
           comments == Splice(r.post.comments, CommentIndex(r.post.comments, r.cid))
       IN  IF ok /\ posts[r.pid].exists
           THEN /\ posts' = SavePath(posts, r.pid, "comments", comments)
                /\ Step(s, [r EXCEPT !.pc = "uncomment_notify",
                                                  !.post.comments = comments])
           ELSE /\ Step(s, ServerError(r))
                /\ UNCHANGED posts
  /\ UNCHANGED <<nextId, nextCid, nreq, calls, toggled, raced, walk>>

CommentDeleteNotify(s) ==
  /\ reqs[s].pc = "uncomment_notify"
  /\ \E populateOk, helperOk \in BOOLEAN :
       LET r == reqs[s]
           notify == r.post.user # r.user
       IN  IF ~populateOk
           THEN /\ Step(s, ServerError(r))
                /\ UNCHANGED calls
           ELSE /\ calls' = IF notify
                            THEN Called(calls, "removeComment", r.post.user, r.user, r.pid)
                            ELSE calls
                /\ Step(s, [(IF notify /\ HelperRejects(helperOk) THEN ServerError(r)
                              ELSE Respond(r, 200, r.post.comments))
                               EXCEPT !.hfail = notify /\ ~helperOk])
  /\ UNCHANGED <<posts, nextId, nextCid, nreq, toggled, raced, walk>>

\* ------------------------------------- GET /api/posts and GET /api/posts/feed
DefaultLimit == 12

MaxPage == 2       \* page numbers a request asks for
MaxLimit == 2      \* limits a request asks for

\* parseInt(req.query.page, 10) || 1: an absent, zero or non-numeric value (0) is 1
PageOf(q) == IF q = 0 THEN 1 ELSE q

\* parseInt(req.query.limit, 10) || 12
LimitOf(q) == IF q = 0 THEN DefaultLimit ELSE q

\* The posts a query matches: all of them, or those of the users u follows.
Matching(store, route, u) ==
  {p \in PostIds : store[p].exists /\ (route = "list" \/ store[p].user \in Following(u))}

\* .sort({ createdAt: -1 })
RECURSIVE SortDesc(_, _)
SortDesc(store, S) ==
  IF S = {} THEN <<>>
  ELSE LET m == CHOOSE x \in S : \A y \in S : store[x].createdAt >= store[y].createdAt
       IN  <<m>> \o SortDesc(store, S \ {m})

Min(a, b) == IF a < b THEN a ELSE b

\* .skip(startIndex).limit(limit)
SkipLimit(seq, start, limit) == SubSeq(seq, start + 1, Min(start + limit, Len(seq)))

\* Faulty variant: endIndex <= total in place of endIndex < total.
NextPageInclusive(page, limit, total) == IF page * limit <= total THEN page + 1 ELSE 0

\* let next = null; if (endIndex < total) next = page + 1     (0 stands for null)
NextPage(page, limit, total) == IF page * limit < total THEN page + 1 ELSE 0

NoWalk == [stage |-> "idle", route |-> "none", user |-> "none", limit |-> 0,
           first |-> 0, page |-> 0, got |-> <<>>, dirty |-> FALSE, snap |-> {}]

\* Post.countDocuments (after Follower.findOne on the feed)
ListCount(s, route, u, pageQ, limitQ, w) ==
  /\ Accept(s)
  /\ \E ok \in BOOLEAN :
       LET r == [NewReq(route, u, 0) EXCEPT !.page = PageOf(pageQ),
                                            !.limit = LimitOf(limitQ), !.w = w]
           total == Cardinality(Matching(posts, route, u))
       IN  /\ Step(s,
                         IF ~ok THEN ServerError(r)
                         ELSE [r EXCEPT !.pc = "list_find", !.total = total])
           /\ walk' = IF ~w THEN walk
                      ELSE IF ~ok THEN [walk EXCEPT !.stage = "aborted"]
                      ELSE IF walk.stage # "next"
                      THEN [NoWalk EXCEPT !.stage = "asked", !.route = route, !.user = u,
                                          !.limit = limitQ, !.first = PageOf(pageQ),
                                          !.page = PageOf(pageQ),
                                          !.snap = Matching(posts, route, u)]
                      ELSE [walk EXCEPT !.stage = "asked",
                                        !.dirty = @ \/ Matching(posts, route, u) # walk.snap]
  /\ UNCHANGED <<posts, nextId, nextCid, calls, toggled, raced>>

\* Post.find().skip().limit().sort(), then the response
ListFind(s) ==
  /\ reqs[s].pc = "list_find"
  /\ \E ok \in BOOLEAN :
       LET r == reqs[s]
           found == SkipLimit(SortDesc(posts, Matching(posts, r.route, r.user)),
                              (r.page - 1) * r.limit, r.limit)
           next == NextPage(r.page, r.limit, r.total)
       IN  /\ Step(s,
                         IF ~ok THEN ServerError(r)
                         ELSE [Respond(r, 200, found) EXCEPT !.next = next])
           /\ walk' = IF ~r.w THEN walk
                      ELSE IF ~ok THEN [walk EXCEPT !.stage = "aborted"]
                      ELSE [walk EXCEPT
                              !.stage = IF next = 0 THEN "done" ELSE "next",
                              !.page = next,
                              !.got = @ \o found,
                              !.dirty = @ \/ Matching(posts, r.route, r.user) # walk.snap]
  /\ UNCHANGED <<posts, nextId, nextCid, nreq, calls, toggled, raced>>

\* Any client asks for any page.
List(s, pageQ, limitQ) == ListCount(s, "list", "none", pageQ, limitQ, FALSE)

Feed(s, u, pageQ, limitQ) == ListCount(s, "feed", u, pageQ, limitQ, FALSE)

\* The walking client asks for a first page, then for the page the last response
\* named, until that is null.
WalkFirst(s, route, u, pageQ, limitQ) ==
  /\ walk.stage = "idle"
  /\ ListCount(s, route, u, pageQ, limitQ, TRUE)

WalkNext(s) ==
  /\ walk.stage = "next"
  /\ ListCount(s, walk.route, walk.user, walk.page, walk.limit, TRUE)

\* ------------------------------------------------------------ the system
Init ==
  /\ posts = [p \in PostIds |-> NoPost]
  /\ nextId = 1
  /\ nextCid = 1
  /\ reqs = [s \in Slots |-> Idle]
  /\ nreq = 0
  /\ calls = [k \in CallKeys |-> 0]
  /\ toggled = [p \in PostIds |-> [u \in Users |-> FALSE]]
  /\ raced = FALSE
  /\ walk = NoWalk
  /\ last = Idle

\* POST /, the like and save toggles, DELETE /:postId
PostRoutes(s) ==
  \/ \E u \in Users, up \in Uploads, parses \in BOOLEAN : Create(s, u, up, parses)
  \/ \E u \in Users, p \in PostIds : LikeFind(s, u, p)
  \/ LikeSave(s)
  \/ LikeNotify(s)
  \/ \E u \in Users, p \in PostIds : SaveFind(s, u, p)
  \/ SaveSave(s)
  \/ \E u \in Users, p \in PostIds : DeleteFind(s, u, p)
  \/ DeleteUser(s)
  \/ DeleteRemove(s)

\* POST /comment and DELETE /comment
CommentRoutes(s) ==
  \/ \E u \in Users, p \in PostIds, body \in Bodies : CommentFind(s, u, p, body)
  \/ CommentSave(s)
  \/ CommentNotify(s)
  \/ \E u \in Users, p \in PostIds, c \in CommentIds : CommentDeleteFind(s, u, p, c)
  \/ CommentDeleteUser(s)
  \/ CommentDeleteSave(s)
  \/ CommentDeleteNotify(s)

\* the GET routes
ReadRoutes(s) ==
  \/ \E p \in PostIds : GetFind(s, p)
  \/ GetSave(s)
  \/ \E p \in PostIds : LikesGet(s, p)
  \/ \E u \in Users : SavesList(s, u)
  \/ \E pageQ \in 0..1, limitQ \in 0..1 : List(s, pageQ, limitQ)
  \/ \E u \in Users, pageQ \in 0..1, limitQ \in 0..1 : Feed(s, u, pageQ, limitQ)
  \/ ListFind(s)

Next ==
  \E s \in Slots : PostRoutes(s) \/ CommentRoutes(s) \/ ReadRoutes(s)

Spec == Init /\ [][Next]_vars

\* The post routes alone.
NextPosts == \E s \in Slots : PostRoutes(s)

SpecPosts == Init /\ [][NextPosts]_vars

\* The comment routes, with POST / to create the posts commented on.
NextComments ==
  \E s \in Slots :
    \/ \E u \in Users : Create(s, u, OneFile, TRUE)
    \/ CommentRoutes(s)
   

SpecComments == Init /\ [][NextComments]_vars

\* The routes that call a notification helper.
NextNotify ==
  \E s \in Slots :
    \/ \E u \in Users : Create(s, u, OneFile, TRUE)
    \/ \E u \in Users, p \in PostIds : LikeFind(s, u, p)
    \/ LikeSave(s)
    \/ LikeNotify(s)
    \/ CommentRoutes(s)

SpecNotify == Init /\ [][NextNotify]_vars

\* --------------------------------------------------------- pagination
\* The store after some posts were created and some of them deleted.
InitPage ==
  /\ nextId \in 1..(MaxPosts + 1)
  /\ \E owners \in [PostIds -> Users \cup {"none"}] :
       posts = [p \in PostIds |-> IF owners[p] = "none" \/ p >= nextId THEN NoPost
                                  ELSE NewPost(owners[p], p)]
  /\ nextCid = 1
  /\ reqs = [s \in Slots |-> Idle]
  /\ nreq = 0
  /\ calls = [k \in CallKeys |-> 0]
  /\ toggled = [p \in PostIds |-> [u \in Users |-> FALSE]]
  /\ raced = FALSE
  /\ walk = NoWalk
  /\ last = Idle

\* One client pages through the lists while other clients create and delete posts.
Paging(s) ==
  \/ \E u \in Users, pageQ \in 0..MaxPage, limitQ \in 0..MaxLimit :
       WalkFirst(s, "feed", u, pageQ, limitQ)
  \/ \E pageQ \in 0..MaxPage, limitQ \in 0..MaxLimit :
       WalkFirst(s, "list", "none", pageQ, limitQ)
  \/ WalkNext(s)

NextPaging ==
  \E s \in Slots :
    \/ \E u \in Users : Create(s, u, OneFile, TRUE)
    \/ \E p \in PostIds : DeleteFind(s, "root", p)
    \/ DeleteUser(s)
    \/ DeleteRemove(s)
    \/ Paging(s)
    \/ ListFind(s)

SpecPaging == InitPage /\ [][NextPaging]_vars

\* ----------------------------------------------- one toggle after the other
RECURSIVE Arrangements(_)
\* The duplicate-free sequences over S.
Arrangements(S) ==
  {<<>>} \cup UNION {{<<x>> \o t : t \in Arrangements(S \ {x})} : x \in S}

\* The store after u1's post 1 was liked and saved by some users, one request at a
\* time, with two requests of the behaviour left.
InitToggle ==
  /\ nextId = MaxPosts + 1
  /\ \E o \in {"u1"}, likes \in Arrangements(Users), saves \in {<<>>, <<"u2", "u1">>} :
       /\ posts = [p \in PostIds |->
                     IF p = 1 THEN [NewPost(o, 1) EXCEPT !.likes = likes, !.saves = saves]
                     ELSE NewPost("u1", p)]
       /\ calls = [k \in CallKeys |->
                     IF k[1] = "newLike" /\ k[2] = o /\ k[3] # o /\ k[4] = 1
                        /\ IsMember(likes, k[3])
                     THEN 1 ELSE 0]
       /\ toggled = [p \in PostIds |-> [u \in Users |-> p = 1 /\ IsMember(likes, u)]]
  /\ nextCid = 1
  /\ reqs = [s \in Slots |-> Idle]
  /\ nreq = MaxReq - 2
  /\ raced = FALSE
  /\ walk = NoWalk
  /\ last = Idle

\* Slot 1 alone: a request is accepted when the one before it was answered.
NextToggle ==
  \E s \in {1} :
    \/ \E u \in Users, p \in PostIds : LikeFind(s, u, p)
    \/ LikeSave(s)
    \/ LikeNotify(s)
    \/ \E u \in Users, p \in PostIds : SaveFind(s, u, p)
    \/ SaveSave(s)

SpecToggle == InitToggle /\ [][NextToggle]_vars

\* =================================================================== claims
Has(arr, u) == \E i \in 1..Len(arr) : arr[i] = u

NoDup(arr) == \A i, j \in 1..Len(arr) : i # j => arr[i] # arr[j]

Without(arr, u) == SelectSeq(arr, LAMBDA e : e # u)

\* This step answers a request, which is then last'.
Answered ==
  \/ nreq' # nreq /\ reqs' = reqs
  \/ \E s \in Slots : reqs[s].pc # "idle" /\ reqs'[s].pc = "idle"

\* This step is a later step of the request in slot s.
Acts(s) == reqs[s].pc # "idle" /\ reqs'[s] # reqs[s]

\* newLikeNotification calls minus removeLikeNotification calls for (owner, u, p)
Outstanding(p, u) ==
  calls[<<"newLike", posts[p].user, u, p>>] - calls[<<"removeLike", posts[p].user, u, p>>]

\* C1: in every reachable state, whatever the interleaving of the like and save
\* requests, each post's likes and each post's saves hold a user at most once.
C1_UniquePerUser ==
  \A p \in PostIds : NoDup(posts[p].likes) /\ NoDup(posts[p].saves)

\* Two like requests of one user on one post were in flight together; the first
\* was answered 200 and the second has saved an array it read before that write.
C1_Witness ==
  /\ raced
  /\ last.route = "like" /\ last.status = 200
  /\ \E s \in Slots :
       /\ reqs[s].pc = "like_notify"
       /\ reqs[s].user = last.user /\ reqs[s].pid = last.pid
       /\ Has(posts[last.pid].likes, last.user)

C2_Step ==
  /\ \A p \in PostIds :
       posts[p].exists /\ ~posts'[p].exists =>
         \E s \in Slots :
           /\ reqs[s].route = "delete" /\ reqs[s].pid = p /\ Acts(s)
           /\ last'.status = 200
           /\ posts[p].user = reqs[s].user \/ Role(reqs[s].user) = "root"
  /\ \A s \in Slots :
       ( /\ reqs[s].route = "delete" /\ Acts(s)
         /\ reqs[s].post.user # reqs[s].user /\ Role(reqs[s].user) # "root" ) =>
         /\ posts' = posts
         /\ reqs'[s].pc = "idle"
         /\ last'.status = IF last'.failed THEN 500 ELSE 401
  /\ (Answered /\ last'.route = "delete" /\ last'.status = 401) =>
       /\ posts' = posts
       /\ \E s \in Slots :
            /\ Acts(s) /\ reqs[s].post.user # reqs[s].user /\ Role(reqs[s].user) # "root"

\* C2: DELETE /:postId removes a post only for its owner or a root user; for any
\* other requester the answer is 401 (500 when the user lookup itself fails) and
\* no post changes.
C2_DeleteOnlyByOwnerOrRoot == [][C2_Step]_vars

\* A requester who is neither owner nor root was answered 401 while two posts exist.
C2_Witness ==
  /\ last.route = "delete" /\ last.status = 401
  /\ posts[last.pid].exists /\ posts[last.pid].user # last.user
  /\ \E q \in PostIds : q # last.pid /\ posts[q].exists

C3_Step ==
  /\ \A s \in Slots :
       (reqs[s].route = "uncomment" /\ Acts(s)) =>
         LET r == reqs[s]
             allowed == r.author = r.user \/ Role(r.user) = "root"
         IN  /\ (posts' # posts \/ calls' # calls) => allowed
             /\ (r.pc = "uncomment_user" /\ ~allowed) =>
                  /\ reqs'[s].pc = "idle"
                  /\ last'.status = IF last'.failed THEN 500 ELSE 401
                  /\ posts' = posts /\ calls' = calls
             /\ (reqs'[s].pc = "idle" /\ last'.status = 401) => ~allowed
  /\ \A s \in Slots :
       (nreq' # nreq /\ reqs'[s] # reqs[s] /\ reqs'[s].route = "uncomment") =>
         LET r == reqs'[s]
         IN  /\ posts' = posts /\ calls' = calls
             /\ posts[r.pid].exists
             /\ \E i \in 1..Len(posts[r.pid].comments) :
                  /\ posts[r.pid].comments[i].id = r.cid
                  /\ posts[r.pid].comments[i].user = r.author
  /\ (nreq' # nreq /\ reqs' = reqs /\ last'.route = "uncomment") =>
       /\ posts' = posts /\ calls' = calls
       /\ last'.status = IF last'.failed THEN 500 ELSE 404
       /\ ~last'.failed =>
            \/ ~posts[last'.pid].exists
            \/ \A i \in 1..Len(posts[last'.pid].comments) :
                 posts[last'.pid].comments[i].id # last'.cid

\* C3: DELETE /comment/:postId/:commentId changes the post or calls
\* removeCommentNotification only for the comment's author or a root user; anyone
\* else, the post's owner included, is answered 401; a missing post or comment is
\* answered 404; and a refused or 404 request changes no post and calls no helper.
C3_CommentDeleteAuthorized == [][C3_Step]_vars

\* The post's owner, neither the comment's author nor root, was answered 401 and
\* the comment is still in the post.
C3_Witness ==
  /\ last.route = "uncomment" /\ last.status = 401
  /\ posts[last.pid].exists /\ posts[last.pid].user = last.user
  /\ \E i \in 1..Len(posts[last.pid].comments) :
       /\ posts[last.pid].comments[i].id = last.cid
       /\ posts[last.pid].comments[i].user # last.user

Max0(a) == IF a < 0 THEN 0 ELSE a

\* The posts a list request r matches in store, and how many of them are newer than x.
Matches(store, r) ==
  {p \in PostIds : store[p].exists /\ (r.route = "list" \/ store[p].user \in Following(r.user))}

Newer(store, r, x) ==
  Cardinality({y \in Matches(store, r) : store[y].createdAt > store[x].createdAt})

C4_Step ==
  \A s \in Slots :
    ( /\ reqs[s].pc = "list_find" /\ reqs'[s].pc = "idle" /\ last'.status = 200
      /\ reqs[s].total = Cardinality(Matches(posts, reqs[s])) ) =>
      LET r == reqs[s]
          p == r.page
          l == r.limit
          t == r.total
          out == last'.out
      IN  /\ p >= 1 /\ l >= 1
          /\ Len(out) = Max0((IF p * l < t THEN p * l ELSE t) - (p - 1) * l)
          /\ \A i \in 1..Len(out) :
               /\ out[i] \in Matches(posts, r)
               /\ Newer(posts, r, out[i]) = (p - 1) * l + i - 1
          /\ last'.next = IF p * l < t THEN p + 1 ELSE 0

\* A walk from page 1 that saw the same matching posts in every read has, once next
\* is null, received each of them exactly once, newest first.
C4_Walk ==
  (walk.stage = "done" /\ walk.first = 1 /\ ~walk.dirty) =>
    /\ Len(walk.got) = Cardinality(walk.snap)
    /\ \A x \in walk.snap : \E i \in 1..Len(walk.got) : walk.got[i] = x
    /\ \A i, j \in 1..Len(walk.got) : i < j => walk.got[i] > walk.got[j]

\* Such a walk never asks for a page that starts beyond the last post: it ends.
C4_WalkEnds ==
  (walk.stage \in {"asked", "next"} /\ walk.first = 1 /\ ~walk.dirty) =>
    \/ walk.page = 1
    \/ (walk.page - 1) * LimitOf(walk.limit) < Cardinality(walk.snap)

\* C4: GET / and GET /feed with page p and limit l over t matching posts answer
\* the posts at offsets [(p-1)*l, min(p*l, t)) of the createdAt-descending order,
\* with next = p+1 exactly when p*l < t and null otherwise; following next from
\* page 1 while the store does not change ends and returns every post once.
C4_Pagination == [][C4_Step]_vars /\ [](C4_Walk /\ C4_WalkEnds)

\* A walk of two pages of one post each has ended over an unchanged store.
C4_Witness ==
  /\ walk.stage = "done" /\ walk.first = 1 /\ ~walk.dirty
  /\ walk.limit = 1 /\ Len(walk.got) = 2 /\ last.page = 2 /\ last.next = 0

\* A later step of the request in slot s.
Continue(s) ==
  \/ LikeSave(s) \/ LikeNotify(s) \/ SaveSave(s) \/ DeleteUser(s) \/ DeleteRemove(s)
  \/ GetSave(s) \/ CommentSave(s) \/ CommentNotify(s) \/ CommentDeleteUser(s)
  \/ CommentDeleteSave(s) \/ CommentDeleteNotify(s) \/ ListFind(s)

C5_OneResponse ==
  /\ \A s \in Slots :
       reqs[s].pc # "idle" =>
         reqs[s].nresp = 0 /\ reqs[s].status = 0 /\ ENABLED Continue(s)
  /\ last.pc = "done" =>
       /\ last.nresp = 1
       /\ last.failed <=> last.status = 500
       /\ last.failed => last.out = <<>>

\* C5: every request is answered exactly once, with 500 and the generic message
\* when a step of its handler fails and nothing after it, and a request for a post
\* id that does not exist is answered 404.
C5_EveryRequestAnsweredOnce ==
  /\ C5_OneResponse
  /\ (last.pc = "done" /\ last.missing) => last.status = 404

C5_Step ==
  (Answered /\ (last'.missing \/ last'.status = 404)) => posts' = posts /\ calls' = calls

\* The part of C5 about the store: a request for a post id that does not exist, and
\* any request answered 404, changes no document and calls no notification helper.
C5_MissingChangesNothing == [][C5_Step]_vars

\* C6: while no like save has written an array read before another write to it
\* (the requests ran one at a time between findById and save), the likes array
\* reflects every toggle answered 200; the race described is the only way to
\* lose one.
C6_SerialTogglesReflected ==
  (~raced /\ \A s \in Slots : reqs[s].pc # "like_notify") =>
    \A p \in PostIds : \A u \in Users :
      posts[p].exists => (Has(posts[p].likes, u) <=> toggled[p][u])

\* Two like requests by distinct users on one post interleaved between findById and
\* save; both were answered 200, and the likes array holds only one of the two.
C6_Witness ==
  /\ raced
  /\ \A s \in Slots : reqs[s].pc = "idle"
  /\ \E p \in PostIds : \E a, b \in Users :
       /\ a # b /\ posts[p].exists
       /\ toggled[p][a] /\ toggled[p][b]
       /\ last.route = "like" /\ last.status = 200 /\ last.pid = p /\ last.user = b
       /\ posts[p].likes = <<b>>

PathOf(r) == IF r.route = "like" THEN "likes" ELSE "saves"

C8_Step ==
  /\ \A s \in Slots :
       ( /\ reqs[s].pc \in {"like_save", "save_save"} /\ Acts(s)
         /\ reqs[s].post = posts[reqs[s].pid]
         /\ ~(reqs'[s].pc = "idle" /\ last'.failed) ) =>
         LET r == reqs[s]
             u == r.user
             old == posts[r.pid][PathOf(r)]
             new == posts'[r.pid][PathOf(r)]
         IN  /\ ~Has(old, u) => new = <<u>> \o old
             /\ Has(old, u) =>
                  \E i \in 1..Len(old) :
                    /\ old[i] = u
                    /\ new = SubSeq(old, 1, i - 1) \o SubSeq(old, i + 1, Len(old))
             /\ Has(new, u) <=> ~Has(old, u)
             /\ Without(new, u) = Without(old, u)
             /\ posts' = [posts EXCEPT ![r.pid] = [@ EXCEPT ![PathOf(r)] = new]]
  /\ ( /\ Answered
       /\ last.route \in {"like", "save"} /\ last'.route = last.route
       /\ last'.user = last.user /\ last'.pid = last.pid
       /\ last.status = 200 /\ last'.status = 200
       /\ last'.old = last.out ) =>
       /\ Has(last'.out, last.user) <=> Has(last.old, last.user)
       /\ Without(last'.out, last.user) = Without(last.old, last.user)
       /\ \A v \in Users : Has(last'.out, v) <=> Has(last.old, v)
       /\ ~Has(last.old, last.user) => last'.out = last.old

C9_Step ==
  /\ (nreq' # nreq /\ reqs' = reqs /\ last'.route = "comment" /\ last'.status = 400) =>
       posts' = posts /\ calls' = calls
  /\ \A s \in Slots :
       (reqs[s].pc = "comment_save" /\ Acts(s) /\ reqs'[s].pc # "idle") =>
         LET r == reqs[s]
         IN  /\ posts'[r.pid].comments =
                  <<[id |-> r.cid, user |-> r.user]>> \o posts[r.pid].comments
             /\ \A i \in 1..Len(posts[r.pid].comments) :
                  posts[r.pid].comments[i].id # r.cid
  /\ \A s \in Slots :
       (reqs[s].pc = "comment_notify" /\ Acts(s) /\ ~last'.failed) =>
         /\ last'.status = 201
         /\ last'.out = posts[reqs[s].pid].comments

\* C9: POST /comment/:postId with empty text is answered 400 and changes nothing;
\* with text on an existing post it puts exactly one new comment by the requester at
\* the head of the post's comments, leaves the earlier comments in place, and
\* answers 201 with the full comments list.
C9_CommentInsertedAtHead == [][C9_Step]_vars

\* C10: when no like request is in flight, for every post p and every user u other
\* than p's owner, the like notification (owner, u, p) is outstanding (new minus
\* remove calls is 1) exactly when u is in p.likes, and the difference is 0
\* otherwise; a user's toggle on their own post calls neither helper.
C10_NotificationsTrackLikes ==
  /\ (\A s \in Slots : reqs[s].route # "like") =>
       \A p \in PostIds : \A u \in Users :
         (posts[p].exists /\ u # posts[p].user) =>
           Outstanding(p, u) = IF Has(posts[p].likes, u) THEN 1 ELSE 0
  /\ \A p \in PostIds : \A u \in Users :
       calls[<<"newLike", u, u, p>>] = 0 /\ calls[<<"removeLike", u, u, p>>] = 0

\* The same, for the behaviours in which the like requests ran one at a time.
C10_HoldsWithoutRace == raced \/ C10_NotificationsTrackLikes

====
